---- MODULE Spec2Model ----
(***************************************************************************)
(* State-machine model of assignment1_code_sample_1.py: the module-level   *)
(* configuration load, then the four calls of the entry point              *)
(* (get_user_input, get_data, save_to_db, send_email), one action per      *)
(* statement that crosses a boundary (stdin, network, database, the mail   *)
(* child process).  The outcome of every boundary call is chosen by the    *)
(* environment; what the script does with the outcome is the code's.       *)
(***************************************************************************)
EXTENDS Integers, Sequences, FiniteSets, TLC

VARIABLES
    mode,        \* "main": run as a script; "call": module imported, save_to_db called
    pc,          \* position of the interpreter
    configFile,  \* db_config.json as found on disk
    db_config,   \* the module global db_config
    loads,       \* how many times the configuration file was loaded
    prompts,     \* how many times the prompt was shown
    user_input,  \* local of __main__
    response,    \* the object bound by "with urlopen(...) as data" inside get_data
    data,        \* local of __main__ / argument of save_to_db
    connection,  \* "none", "open", "closed"
    cursor,      \* "none", "open", "closed"
    connectArgs, \* the keyword arguments pymysql.connect was called with
    opened,      \* connections opened
    closed,      \* connections closed
    executed,    \* the (query, args) pairs handed to cursor.execute
    uncommitted, \* rows written in the open transaction
    mytable,     \* rows committed to mytable
    spawns,      \* attempts to spawn the mail executable
    childState,  \* "none", "running", "exited"
    childArgv,   \* argv of the mail child
    childStdin,  \* what was fed to the child's standard input
    returncode,  \* exit status of the mail child
    childStderr, \* what the child wrote to standard error
    failure,     \* the step whose exception ended the run, or "none"
    exitStatus,  \* exit status of the process (-1 while running)
    trace        \* call / return / raise events of the four functions

vars == <<mode, pc, configFile, db_config, loads, prompts, user_input, response,
          data, connection, cursor, connectArgs, opened, closed, executed,
          uncommitted, mytable, spawns, childState, childArgv, childStdin,
          returncode, childStderr, failure, exitStatus, trace>>

----------------------------------------------------------------------------
(* Bounds and value sets *)

MaxExitCode == 2

ExitCodes == 0..MaxExitCode

Inputs == {"", "Ann", "x'); DROP TABLE mytable; --"}

Payloads == {"", "{\"k\": 1}"}

StderrTexts == {"", "mail: warning"}

NoConfig == [host |-> "", password |-> ""]

Configs == {[host |-> "db1", password |-> "good"],
            [host |-> "db2", password |-> "good"],
            [host |-> "db1", password |-> "bad"]}

ConfigFiles == {[state |-> "missing", content |-> NoConfig],
                [state |-> "malformed", content |-> NoConfig]}
               \cup {[state |-> "ok", content |-> c] : c \in Configs}

\* The database server accepts a connection made with these parameters.
ServerAccepts(cfg) == cfg.password = "good"

\* Python values that travel as `data`: a str, or an HTTP response object.
None == [kind |-> "none", val |-> "", closed |-> FALSE]

Str(s) == [kind |-> "str", val |-> s, closed |-> FALSE]

Bytes(b) == [kind |-> "bytes", val |-> b, closed |-> FALSE]

Response(body, isClosed) == [kind |-> "response", val |-> body, closed |-> isClosed]

Unbound == "<unbound>"

CallValues == {Str(s) : s \in Inputs} \cup {Bytes(p) : p \in Payloads}
              \cup {Response(p, TRUE) : p \in Payloads}

----------------------------------------------------------------------------
(* Pure parts of the code *)

Event(e, step) == [ev |-> e, step |-> step]

\* The call order of the entry point.
MainStepsSwapped == <<"get_user_input", "get_data", "send_email", "save_to_db">>

MainSteps == <<"get_user_input", "get_data", "save_to_db", "send_email">>

Entry(step) ==
    CASE step = "get_user_input" -> "input"
      [] step = "get_data"       -> "urlopen"
      [] step = "save_to_db"     -> "connect"
      [] step = "send_email"     -> "spawn"

IndexOf(step) == CHOOSE i \in 1..Len(MainSteps) : MainSteps[i] = step

\* Where control goes when `step` returns normally.
AfterReturn(step) ==
    IF mode = "call" THEN "returned"
    ELSE IF IndexOf(step) = Len(MainSteps) THEN "done"
         ELSE Entry(MainSteps[IndexOf(step) + 1])

\* Where control goes when `step` raises: nothing catches it.
AfterRaiseSwallowed(step) == AfterReturn(step)

AfterRaise(step) == "failed"

\* What the program does to the table when `step` raises: nothing.
TableAfterRaiseCompensated(step, table) ==
    IF step = "send_email" THEN <<>> ELSE table

TableAfterRaise(step, table) == table

\* The query text, as a sequence of pieces, each literal or taken from the data.
QueryInterpolated(d) ==
    << [text |-> "INSERT INTO mytable (column1, column2) VALUES ('", from |-> "literal"],
       [text |-> d.val, from |-> "data"],
       [text |-> "', 'Another Value')", from |-> "literal"] >>

Query(d) ==
    << [text |-> "INSERT INTO mytable (column1, column2) VALUES (%s, 'Another Value')",
        from |-> "literal"] >>

\* The parameter tuple handed to cursor.execute.
ExecuteArgs(d) == <<d>>

\* The row the statement writes: %s is replaced by the bound parameter.
Row(args) == [column1 |-> args[1], column2 |-> "Another Value"]

\* pymysql.connect(**db_config): the keyword arguments, and no autocommit.
ConnectParamsDefault(cfg) == [host |-> "localhost", password |-> "good"]

ConnectParams(cfg) == cfg

AutocommitOn == TRUE

Autocommit == FALSE

\* Leaving "with urlopen(...) as data" closes the response.
WithExit(r) == [r EXCEPT !.closed = TRUE]

\* subprocess.run(..., check=True): which exits of the child raise.
CheckFailsOnStderr(code, err) == code # 0 /\ err # ""

CheckFails(code, err) == code # 0

MailArgv(to, subject) == <<"mail", "-s", subject, to>>

----------------------------------------------------------------------------
(* Control transfer *)

envVars == <<mode, configFile>>

cfgVars == <<db_config, loads>>

ioVars == <<prompts, user_input>>

netVars == <<response, data>>

dbVars == <<connection, cursor, connectArgs, opened, closed, executed, uncommitted>>

mailVars == <<spawns, childState, childArgv, childStdin, returncode, childStderr>>

\* Fall through to the next statement of the same function.
Goto(p) ==
    /\ pc' = p
    /\ UNCHANGED <<failure, exitStatus>>

\* `step` returns to its caller; tr is the trace up to the return.
Return(step, tr) ==
    /\ pc' = AfterReturn(step)
    /\ trace' = Append(tr, Event("return", step))
    /\ UNCHANGED <<failure, exitStatus>>

\* `step` raises; tr is the trace up to the raise.
Raise(step, tr) ==
    /\ pc' = AfterRaise(step)
    /\ trace' = Append(tr, Event("raise", step))
    /\ failure' = step
    /\ exitStatus' = IF AfterRaise(step) = "failed" THEN 1 ELSE exitStatus
    /\ mytable' = TableAfterRaise(step, mytable)

----------------------------------------------------------------------------
(* Initial states *)

Blank ==
    /\ prompts = 0
    /\ user_input = Unbound
    /\ response = None
    /\ connection = "none"
    /\ cursor = "none"
    /\ connectArgs = NoConfig
    /\ opened = 0
    /\ closed = 0
    /\ executed = <<>>
    /\ uncommitted = <<>>
    /\ mytable = <<>>
    /\ spawns = 0
    /\ childState = "none"
    /\ childArgv = <<>>
    /\ childStdin = Unbound
    /\ returncode = -1
    /\ childStderr = ""
    /\ failure = "none"
    /\ exitStatus = -1
    /\ trace = <<>>

\* python assignment1_code_sample_1.py
Init ==
    /\ mode = "main"
    /\ pc = "load_config"
    /\ configFile \in ConfigFiles
    /\ db_config = NoConfig
    /\ loads = 0
    /\ data = None
    /\ Blank

\* The module has been imported (configuration loaded, entry point skipped) and
\* save_to_db is called with a value.
InitSave ==
    /\ mode = "call"
    /\ pc = "connect"
    /\ configFile \in {f \in ConfigFiles : f.state = "ok"}
    /\ db_config = configFile.content
    /\ loads = 1
    /\ data \in CallValues
    /\ Blank

----------------------------------------------------------------------------
(* Module level: with open("db_config.json") as data: db_config = json.load(data) *)

LoadConfig ==
    /\ pc = "load_config"
    /\ loads' = loads + 1
    /\ \/ /\ configFile.state = "ok"
          /\ db_config' = configFile.content
          /\ Goto(Entry(MainSteps[1]))
       \/ /\ configFile.state # "ok"
          /\ db_config' = db_config
          /\ pc' = "failed"
          /\ failure' = "load_config"
          /\ exitStatus' = 1
    /\ UNCHANGED <<envVars, ioVars, netVars, dbVars, mytable, mailVars, trace>>

(* get_user_input *)

GetUserInput ==
    /\ pc = "input"
    /\ prompts' = prompts + 1
    /\ \/ \E s \in Inputs :
             /\ user_input' = s
             /\ Return("get_user_input", Append(trace, Event("call", "get_user_input")))
             /\ mytable' = mytable
       \/ /\ user_input' = user_input
          /\ Raise("get_user_input", Append(trace, Event("call", "get_user_input")))
    /\ UNCHANGED <<envVars, cfgVars, netVars, dbVars, mailVars>>

(* get_data *)

UrlOpen ==
    /\ pc = "urlopen"
    /\ \/ \E p \in Payloads :
             /\ response' = Response(p, FALSE)
             /\ Goto("with_exit")
             /\ trace' = Append(trace, Event("call", "get_data"))
             /\ mytable' = mytable
       \/ /\ response' = response
          /\ Raise("get_data", Append(trace, Event("call", "get_data")))
    /\ UNCHANGED <<envVars, cfgVars, ioVars, data, dbVars, mailVars>>

GetDataReturn ==
    /\ pc = "with_exit"
    /\ response' = WithExit(response)
    /\ data' = response'
    /\ Return("get_data", trace)
    /\ UNCHANGED <<envVars, cfgVars, ioVars, dbVars, mytable, mailVars>>

(* save_to_db *)

SaveConnect ==
    /\ pc = "connect"
    /\ connectArgs' = ConnectParams(db_config)
    /\ \/ /\ ServerAccepts(connectArgs')
          /\ connection' = "open"
          /\ opened' = opened + 1
          /\ Goto("cursor")
          /\ trace' = Append(trace, Event("call", "save_to_db"))
          /\ mytable' = mytable
       \/ /\ ~ServerAccepts(connectArgs')
          /\ UNCHANGED <<connection, opened>>
          /\ Raise("save_to_db", Append(trace, Event("call", "save_to_db")))
    /\ UNCHANGED <<envVars, cfgVars, ioVars, netVars, cursor, closed, executed,
                   uncommitted, mailVars>>

SaveCursor ==
    /\ pc = "cursor"
    /\ cursor' = "open"
    /\ Goto("execute")
    /\ UNCHANGED <<envVars, cfgVars, ioVars, netVars, connection, connectArgs, opened,
                   closed, executed, uncommitted, mytable, mailVars, trace>>

SaveExecute ==
    /\ pc = "execute"
    /\ executed' = Append(executed, [query |-> Query(data), args |-> ExecuteArgs(data)])
    /\ \/ /\ IF Autocommit
             THEN /\ mytable' = Append(mytable, Row(ExecuteArgs(data)))
                  /\ uncommitted' = uncommitted
             ELSE /\ uncommitted' = Append(uncommitted, Row(ExecuteArgs(data)))
                  /\ mytable' = mytable
          /\ Goto("commit")
          /\ trace' = trace
       \/ /\ uncommitted' = uncommitted
          /\ Raise("save_to_db", trace)
    /\ UNCHANGED <<envVars, cfgVars, ioVars, netVars, connection, cursor, connectArgs,
                   opened, closed, mailVars>>

SaveCommit ==
    /\ pc = "commit"
    /\ \/ /\ mytable' = mytable \o uncommitted
          /\ uncommitted' = <<>>
          /\ Goto("cursor_close")
          /\ trace' = trace
       \/ /\ uncommitted' = uncommitted
          /\ Raise("save_to_db", trace)
    /\ UNCHANGED <<envVars, cfgVars, ioVars, netVars, connection, cursor, connectArgs,
                   opened, closed, executed, mailVars>>

SaveCursorClose ==
    /\ pc = "cursor_close"
    /\ cursor' = "closed"
    /\ Goto("conn_close")
    /\ UNCHANGED <<envVars, cfgVars, ioVars, netVars, connection, connectArgs, opened,
                   closed, executed, uncommitted, mytable, mailVars, trace>>

SaveConnClose ==
    /\ pc = "conn_close"
    /\ connection' = "closed"
    /\ closed' = closed + 1
    /\ Return("save_to_db", trace)
    /\ UNCHANGED <<envVars, cfgVars, ioVars, netVars, cursor, connectArgs, opened,
                   executed, uncommitted, mytable, mailVars>>

(* send_email('admin@example.com', 'User Input', user_input) *)

SendEmailSpawn ==
    /\ pc = "spawn"
    /\ spawns' = spawns + 1
    /\ \/ /\ childState' = "running"
          /\ childArgv' = MailArgv("admin@example.com", "User Input")
          /\ childStdin' = user_input
          /\ Goto("wait")
          /\ trace' = Append(trace, Event("call", "send_email"))
          /\ mytable' = mytable
       \/ /\ UNCHANGED <<childState, childArgv, childStdin>>
          /\ Raise("send_email", Append(trace, Event("call", "send_email")))
    /\ UNCHANGED <<envVars, cfgVars, ioVars, netVars, dbVars, returncode, childStderr>>

SendEmailWait ==
    /\ pc = "wait"
    /\ \E code \in ExitCodes, err \in StderrTexts :
          /\ childState' = "exited"
          /\ returncode' = code
          /\ childStderr' = err
          /\ IF CheckFails(code, err)
             THEN Raise("send_email", trace)
             ELSE Return("send_email", trace) /\ mytable' = mytable
    /\ UNCHANGED <<envVars, cfgVars, ioVars, netVars, dbVars, spawns, childArgv,
                   childStdin>>

----------------------------------------------------------------------------
(* Specifications *)

Next ==
    \/ LoadConfig
    \/ GetUserInput
    \/ UrlOpen
    \/ GetDataReturn
    \/ SaveConnect
    \/ SaveCursor
    \/ SaveExecute
    \/ SaveCommit
    \/ SaveCursorClose
    \/ SaveConnClose
    \/ SendEmailSpawn
    \/ SendEmailWait

Spec == Init /\ [][Next]_vars

NextSave ==
    \/ SaveConnect
    \/ SaveCursor
    \/ SaveExecute
    \/ SaveCommit
    \/ SaveCursorClose
    \/ SaveConnClose

SpecSave == InitSave /\ [][NextSave]_vars

----------------------------------------------------------------------------
(* Properties *)

Called(step) == \E i \in 1..Len(trace) : trace[i] = Event("call", step)

Returned(step) == \E i \in 1..Len(trace) : trace[i] = Event("return", step)

Terminated == pc \in {"done", "failed", "returned"}

\* C1: whenever save_to_db has been invoked with a configuration the server
\* accepts and the run has ended, exactly one connection was opened and it, and
\* its cursor, have been closed exactly once: no run ends with the connection open.
C1_ReleasedOnEveryExit ==
    (Terminated /\ Called("save_to_db") /\ ServerAccepts(db_config)) =>
        /\ opened = 1
        /\ closed = 1
        /\ connection = "closed"
        /\ cursor = "closed"

\* C2: when save_to_db fails (connect, execute or commit), mytable holds no row
\* of this run, send_email is never invoked and no mail process is spawned.
C2_NoRowNoMailOnSaveFailure ==
    failure = "save_to_db" =>
        /\ mytable = <<>>
        /\ ~Called("send_email")
        /\ spawns = 0
        /\ childState = "none"
        /\ pc = "failed"

\* C2 witness: the statement executed and the commit failed.
C2_Witness ==
    /\ failure = "save_to_db"
    /\ Len(executed) = 1
    /\ uncommitted # <<>>

\* C3: while send_email runs the row of this run is already committed; when
\* send_email fails the row is still committed, the process has ended in a failed
\* state, and no later step changes the table.
C3_RowStaysCommitted ==
    /\ [](/\ pc \in {"spawn", "wait"} => Len(mytable) = 1
          /\ failure = "send_email" =>
                /\ mytable = <<Row(ExecuteArgs(data))>>
                /\ pc = "failed"
                /\ exitStatus # 0)
    /\ [][failure = "send_email" => mytable' = mytable]_vars

\* C3 witness: the mail executable could not be spawned, the row is committed.
C3_Witness ==
    /\ failure = "send_email"
    /\ childState = "none"
    /\ Len(mytable) = 1

\* C4: the functions are called in the order get_user_input, get_data,
\* save_to_db, send_email, each at most once, a call only after the previous
\* function has returned normally, and never while another is in progress.
C4_FixedOrder ==
    LET order == <<"get_user_input", "get_data", "save_to_db", "send_email">>
        isCall(e) == e.ev = "call"
        calls == SelectSeq(trace, isCall)
    IN  /\ Len(calls) <= Len(order)
        /\ \A i \in 1..Len(calls) : calls[i].step = order[i]
        /\ \A i \in 1..Len(trace) :
              IF i % 2 = 1
              THEN /\ trace[i].ev = "call"
                   /\ i > 1 => trace[i - 1].ev = "return"
              ELSE /\ trace[i].ev \in {"return", "raise"}
                   /\ trace[i].step = trace[i - 1].step
        /\ (pc \in {"input", "urlopen", "connect", "spawn"}) => Len(trace) % 2 = 0
        /\ (pc \in {"with_exit", "cursor", "execute", "commit", "cursor_close",
                    "conn_close", "wait"}) => Len(trace) % 2 = 1

\* C4 witness: a run in which all four functions were called and returned.
C4_Witness ==
    /\ pc = "done"
    /\ Len(trace) = 8

\* C5: whatever value save_to_db is called with, the query text handed to
\* cursor.execute is the one constant string, no piece of it is taken from the
\* value, and the value is passed as the statement's single bound parameter.
C5_ConstantQuery ==
    \A i \in 1..Len(executed) :
        /\ executed[i].query =
              << [text |-> "INSERT INTO mytable (column1, column2) VALUES (%s, 'Another Value')",
                  from |-> "literal"] >>
        /\ \A j \in 1..Len(executed[i].query) : executed[i].query[j].from # "data"
        /\ executed[i].args = <<data>>

\* C5 witness: a string of SQL metacharacters has been executed and committed.
C5_Witness ==
    /\ Len(executed) = 1
    /\ data = Str("x'); DROP TABLE mytable; --")
    /\ Len(mytable) = 1

\* C6: when get_data has returned and its result is passed to save_to_db, the
\* response handle is open and readable.
C6_HandleReadable ==
    (mode = "main" /\ pc = "connect" /\ Returned("get_data")) =>
        /\ data.kind = "response"
        /\ ~data.closed

\* C7: a run in which every step succeeded leaves exactly one row, column1
\* holding the fetched payload and column2 'Another Value', and one notification
\* whose body is the captured input.
C7_SuccessfulRun ==
    pc = "done" =>
        /\ Len(mytable) = 1
        /\ mytable[1].column1.kind \in {"str", "bytes"}
        /\ mytable[1].column1.val = response.val
        /\ mytable[1].column2 = "Another Value"
        /\ spawns = 1
        /\ childStdin = user_input

\* C8: send_email returns only after the child has exited; it returns normally
\* exactly when the exit status is zero and raises on every non-zero status,
\* whatever the child wrote to standard error.
C8_NonZeroExitFails ==
    /\ childState = "running" => (pc = "wait" /\ ~Returned("send_email"))
    /\ Returned("send_email") => (childState = "exited" /\ returncode = 0)
    /\ (childState = "exited" /\ returncode # 0) =>
          (failure = "send_email" /\ pc = "failed" /\ ~Returned("send_email"))
    /\ (childState = "exited" /\ returncode = 0) =>
          (failure = "none" /\ Returned("send_email"))

\* C8 witness: the child exited non-zero with nothing on standard error.
C8_Witness ==
    /\ childState = "exited"
    /\ returncode # 0
    /\ childStderr = ""
    /\ failure = "send_email"

\* C9: a failure ends the run: the process is in the failed state with a
\* non-zero exit status, the raise is the last event, no function is called
\* twice, and after a failed fetch there is no connection, no row and no mail.
C9_FailureIsFatal ==
    /\ failure # "none" => (pc = "failed" /\ exitStatus # 0)
    /\ pc = "failed" => failure # "none"
    /\ \A i \in 1..Len(trace) : trace[i].ev = "raise" =>
          (i = Len(trace) /\ failure = trace[i].step)
    /\ \A i, j \in 1..Len(trace) :
          (trace[i].ev = "call" /\ trace[j].ev = "call" /\ trace[i].step = trace[j].step)
              => i = j
    /\ failure = "load_config" => trace = <<>>
    /\ failure = "get_data" =>
          /\ opened = 0
          /\ connection = "none"
          /\ mytable = <<>>
          /\ uncommitted = <<>>
          /\ spawns = 0

\* C9 witness: the fetch failed.
C9_Witness ==
    /\ failure = "get_data"
    /\ pc = "failed"
    /\ exitStatus = 1

\* C10: the configuration is loaded once, before any step; a missing or
\* malformed file ends the run with no prompt, fetch, connection or mail; the
\* loaded record is never changed and is what pymysql.connect is called with.
C10_ConfigLoadedOnce ==
    /\ loads <= 1
    /\ (trace # <<>> \/ prompts > 0) => (loads = 1 /\ configFile.state = "ok")
    /\ configFile.state # "ok" =>
          /\ pc \in {"load_config", "failed"}
          /\ loads = 1 => (pc = "failed" /\ failure = "load_config" /\ exitStatus # 0)
          /\ prompts = 0
          /\ trace = <<>>
          /\ response = None
          /\ opened = 0
          /\ spawns = 0
    /\ (loads = 1 /\ configFile.state = "ok") => db_config = configFile.content
    /\ Called("save_to_db") => connectArgs = configFile.content

\* C10 witness: a connection was opened with the parameters of the second host.
C10_Witness ==
    /\ opened = 1
    /\ connectArgs = [host |-> "db2", password |-> "good"]
    /\ db_config = connectArgs

====
